---- MODULE Spec2Model ----
(***************************************************************************)
(* Model of the agentic-crew runners: CrewAIRunner (crewai_runner.py) and  *)
(* StrandsRunner (strands_runner.py), and of the pytest plugin (plugin.py): *)
(* its collection hook and its module-mocking fixtures.                    *)
(*                                                                         *)
(* Python values are modelled as follows.                                  *)
(*   str            a TLA+ string (\o, Len and SubSeq act on characters)   *)
(*   dict with fixed string keys (a crew/agent/task config)                *)
(*                  a function whose DOMAIN is the set of keys present     *)
(*   dict whose insertion order matters (agents, tasks, inputs)            *)
(*                  a sequence of <<key, value>> pairs with distinct keys  *)
(*   d.get(k) with no default                                              *)
(*                  <<>> for None, <<v>> for a value v                     *)
(*   an object built by a backend SDK                                      *)
(*                  a record with a "type" field and the constructor's     *)
(*                  keyword arguments; "oid" is its construction number    *)
(*   a call that may raise                                                 *)
(*                  a record with field exc: "" when it returned           *)
(***************************************************************************)
EXTENDS Integers, Sequences, FiniteSets, TLC

VARIABLES
    importable,   \* the SDK modules an `import` can locate
    fs,           \* the file system: knowledge path -> directory entry
    crew_config,  \* the crew configuration handed to build_crew
    instance,     \* per runner class: "absent" | "constructed" | "RuntimeError"
    built,        \* per runner class: the outcome of build_crew
    backend,      \* per runner class: the backend objects constructed so far
    ran,          \* per runner class: the outcome of run
    calls,        \* per runner class: the calls made on the handle by run
    knowledge,    \* the outcome of a direct call of CrewAIRunner._load_knowledge
    session,      \* the pytest session of the plugin: phase, options, items
    sys_modules,  \* sys.modules: module name -> module object
    fixtures,     \* the mocking fixtures suspended at their yield, outermost first
    finished,     \* the mocking fixtures torn down so far, in teardown order,
                  \* each with the fixtures that were active around it
    modules_before \* sys.modules as it was before the first fixture was set up

vars == <<importable, fs, crew_config, instance, built, backend, ran, calls,
          knowledge, session, sys_modules, fixtures, finished, modules_before>>

\* The state of the mocking fixtures of the plugin.
mockVars == <<sys_modules, fixtures, finished, modules_before>>

\* The state of the pytest plugin.
pluginVars == <<session, mockVars>>

Runners == {"crewai", "strands"}

----------------------------------------------------------------------------
(* Bounds of the model. *)

MaxAgents == 2
MaxTasks == 2
MaxFiles == 2
MaxPaths == 2

----------------------------------------------------------------------------
(* Python helpers. *)

None == <<>>

Some(v) == <<v>>

\* d.get(k, default)
Get(d, k, default) == IF k \in DOMAIN d THEN d[k] ELSE default

\* d.get(k)
GetOpt(d, k) == IF k \in DOMAIN d THEN Some(d[k]) ELSE None

\* str(x) for x = d.get(k) where the values are strings
StrOpt(o) == IF o = None THEN "None" ELSE o[1]

\* The keys of an insertion-ordered dict.
KeySet(items) == {items[i][1] : i \in 1..Len(items)}

\* items[k] for a key k of an insertion-ordered dict
Lookup(items, k) == items[CHOOSE i \in 1..Len(items) : items[i][1] = k][2]

\* All sequences of length <= n of distinct elements of S.
RECURSIVE DistinctSeqs(_, _)
DistinctSeqs(S, n) ==
    IF n = 0 THEN {<<>>}
    ELSE LET shorter == DistinctSeqs(S, n - 1)
         IN shorter \cup
            {Append(s, x) : <<s, x>> \in
                {p \in shorter \X S : \A i \in 1..Len(p[1]) : p[1][i] # p[2]}}

----------------------------------------------------------------------------
(* BaseRunner.get_llm: the LLM-client factory every runner inherits.  It   *)
(* lives in runners/base.py; the runners only pass its result on.          *)

get_llm(model) == IF model = None THEN "llm:default" ELSE "llm:" \o model[1]

----------------------------------------------------------------------------
(* CrewAIRunner *)

\* CrewAIRunner.build_agent: one crewai.Agent; oid is its construction number.
CrewAI_build_agent(agent_config, tools, oid) ==
    [type |-> "Agent",
     oid |-> oid,
     role |-> Get(agent_config, "role", "Agent"),
     goal |-> Get(agent_config, "goal", ""),
     backstory |-> Get(agent_config, "backstory", ""),
     llm |-> get_llm(GetOpt(agent_config, "llm")),
     tools |-> tools,
     allow_delegation |-> Get(agent_config, "allow_delegation", FALSE),
     verbose |-> TRUE]

\* CrewAIRunner.build_task: one crewai.Task bound to the agent handle.
CrewAI_build_task(task_config, agent, oid) ==
    [type |-> "Task",
     oid |-> oid,
     description |-> Get(task_config, "description", ""),
     expected_output |-> Get(task_config, "expected_output", ""),
     agent |-> agent]

\* build_crew, lines 46-49: the dict name -> Agent, built in the order of
\* agents_config.  The result is the list of <<name, Agent>> pairs.
RECURSIVE BuildAgents(_, _)
BuildAgents(agents_config, n) ==
    IF n = 0 THEN <<>>
    ELSE Append(BuildAgents(agents_config, n - 1),
                <<agents_config[n][1],
                  CrewAI_build_agent(agents_config[n][2], <<>>, n)>>)

\* build_crew, line 56: the reference check of one task.
InvalidAgent(agent_name, agents) ==
    \/ agent_name = None
    \/ agent_name[1] = ""
    \/ agent_name[1] \notin KeySet(agents)

\* build_crew, lines 52-58: the task loop over tasks_config[i..], with the
\* tasks built so far.  base is the number of objects built before the loop.
RECURSIVE BuildTasks(_, _, _, _, _)
BuildTasks(tasks_config, agents, i, tasks, base) ==
    IF i > Len(tasks_config) THEN [exc |-> "", msg |-> "", tasks |-> tasks]
    ELSE LET task_name == tasks_config[i][1]
             task_cfg == tasks_config[i][2]
             agent_name == GetOpt(task_cfg, "agent")
         IN IF InvalidAgent(agent_name, agents)
            THEN [exc |-> "ValueError",
                  msg |-> "Task '" \o task_name \o "' has invalid agent: "
                          \o StrOpt(agent_name),
                  tasks |-> tasks]
            ELSE BuildTasks(tasks_config, agents, i + 1,
                     Append(tasks,
                         CrewAI_build_task(task_cfg, Lookup(agents, agent_name[1]),
                                           base + Len(tasks) + 1)),
                     base)

\* The patterns of _load_knowledge, line 148, as file suffixes, in order.
KnowledgeExts == <<"md", "txt", "py", "ts">>

\* Path.rglob("*." + ext) on a directory entry: the files below it whose
\* suffix is ext, in the directory's listing order.
RGlob(entry, ext) == SelectSeq(entry.files, LAMBDA f : f.ext = ext)

\* _load_knowledge, lines 150-155: one file.  acc = [exc, sources].
LoadFile(path, f, acc, base) ==
    CASE f.read = "OSError" -> acc
      [] f.read = "UnicodeDecodeError" ->
            [acc EXCEPT !.exc = "UnicodeDecodeError"]
      [] f.read = "blank" -> acc
      [] OTHER ->
            [acc EXCEPT !.sources = Append(@,
                [type |-> "TextFileKnowledgeSource",
                 oid |-> base + Len(acc.sources) + 1,
                 file_paths |-> <<path \o "/" \o f.name>>])]

\* _load_knowledge, line 149: the files one pattern matches, from the j-th on.
RECURSIVE LoadFiles(_, _, _, _, _)
LoadFiles(path, files, j, acc, base) ==
    IF acc.exc # "" \/ j > Len(files) THEN acc
    ELSE LoadFiles(path, files, j + 1, LoadFile(path, files[j], acc, base), base)

\* _load_knowledge, line 148: the patterns, from the e-th on.
RECURSIVE LoadExts(_, _, _, _, _)
LoadExts(path, entry, e, acc, base) ==
    IF acc.exc # "" \/ e > Len(KnowledgeExts) THEN acc
    ELSE LoadExts(path, entry, e + 1,
                  LoadFiles(path, RGlob(entry, KnowledgeExts[e]), 1, acc, base),
                  base)

\* _load_knowledge, lines 142-146: the paths, from the p-th on.
RECURSIVE LoadPaths(_, _, _, _, _)
LoadPaths(knowledge_paths, files, p, acc, base) ==
    IF acc.exc # "" \/ p > Len(knowledge_paths) THEN acc
    ELSE LET path == knowledge_paths[p]
         IN IF ~files[path].exists
            THEN LoadPaths(knowledge_paths, files, p + 1, acc, base)
            ELSE LoadPaths(knowledge_paths, files, p + 1,
                           LoadExts(path, files[path], 1, acc, base), base)

\* CrewAIRunner._load_knowledge: [exc, sources]; exc # "" when it raised, and
\* sources are then the knowledge sources constructed before the raise.
_load_knowledge(knowledge_paths, files, base) ==
    LoadPaths(knowledge_paths, files, 1, [exc |-> "", sources |-> <<>>], base)

\* ProcessOf with the test turned round: sequential only when named.
ProcessOf_SequentialOnlyWhenNamed(cfg) ==
    LET process_type == Get(cfg, "process", "sequential")
    IN IF process_type = "sequential" THEN "Process.sequential"
       ELSE "Process.hierarchical"

\* build_crew, lines 64-65.
ProcessOf(cfg) ==
    LET process_type == Get(cfg, "process", "sequential")
    IN IF process_type = "hierarchical" THEN "Process.hierarchical"
       ELSE "Process.sequential"

\* CrewAIRunner.build_crew: [exc, msg, crew, log]; log lists the backend
\* objects in the order of their construction, also when the call raised.
CrewAI_build_crew(cfg, files) ==
    LET agents_config == Get(cfg, "agents", <<>>)
        agents == BuildAgents(agents_config, Len(agents_config))
        agentObjs == [i \in 1..Len(agents) |-> agents[i][2]]
        tasks_config == Get(cfg, "tasks", <<>>)
        T == BuildTasks(tasks_config, agents, 1, <<>>, Len(agents))
        log1 == agentObjs \o T.tasks
    IN IF T.exc # ""
       THEN [exc |-> T.exc, msg |-> T.msg, crew |-> None, log |-> log1]
       ELSE LET K == _load_knowledge(Get(cfg, "knowledge_paths", <<>>), files,
                                     Len(log1))
                log2 == log1 \o K.sources
            IN IF K.exc # ""
               THEN [exc |-> K.exc, msg |-> "", crew |-> None, log |-> log2]
               ELSE LET crew ==
                            [type |-> "Crew",
                             oid |-> Len(log2) + 1,
                             agents |-> agentObjs,
                             tasks |-> T.tasks,
                             process |-> ProcessOf(cfg),
                             planning |-> Get(cfg, "planning", TRUE),
                             memory |-> Get(cfg, "memory", TRUE),
                             knowledge_sources |->
                                 IF K.sources # <<>> THEN Some(K.sources) ELSE None,
                             verbose |-> Get(cfg, "verbose", TRUE)]
                    IN [exc |-> "", msg |-> "", crew |-> Some(crew),
                        log |-> Append(log2, crew)]

\* CrewAIRunner.run, line 88: the normalisation of what kickoff returned.
Normalize(result) == IF result.hasRaw THEN result.raw ELSE result.str

\* CrewAI_run with one retry after a failed kickoff.
CrewAI_run_Retry(inputs, outcomes) ==
    LET r == outcomes[1]
        again == outcomes[2]
    IN IF r.exc = ""
       THEN [exc |-> "", value |-> Normalize(r.result),
             calls |-> <<[arg |-> inputs, did |-> r]>>]
       ELSE [exc |-> again.exc,
             value |-> IF again.exc = "" THEN Normalize(again.result) ELSE "",
             calls |-> <<[arg |-> inputs, did |-> r], [arg |-> inputs, did |-> again]>>]

\* CrewAIRunner.run.  outcomes[k] is what the k-th call of crew.kickoff
\* does; the result lists the calls made, each with its inputs argument
\* and what it did.
CrewAI_run(inputs, outcomes) ==
    LET r == outcomes[1]
        made == <<[arg |-> inputs, did |-> r]>>
    IN IF r.exc # "" THEN [exc |-> r.exc, value |-> "", calls |-> made]
       ELSE [exc |-> "", value |-> Normalize(r.result), calls |-> made]

----------------------------------------------------------------------------
(* StrandsRunner *)

\* The slice bound of _build_system_prompt, line 151: desc[:200].
TruncLen == 200

\* desc[:k] of a Python str.
Prefix(text, k) == SubSeq(text, 1, IF Len(text) < k THEN Len(text) ELSE k)

\* sep.join(parts)
RECURSIVE Join(_, _)
Join(parts, sep) ==
    IF Len(parts) = 0 THEN ""
    ELSE IF Len(parts) = 1 THEN parts[1]
    ELSE parts[1] \o sep \o Join(Tail(parts), sep)

\* TaskPart with the marker appended only to a description that was cut.
TaskPart_MarkerOnlyWhenCut(task_name, desc) ==
    "\n- " \o task_name \o ": "
    \o (IF Len(desc) > TruncLen THEN Prefix(desc, TruncLen) \o "..." ELSE desc)

\* _build_system_prompt, line 151: the part appended for one described task.
TaskPart(task_name, desc) ==
    "\n- " \o task_name \o ": " \o Prefix(desc, TruncLen) \o "..."

\* _build_system_prompt, lines 130-131.
PurposeParts(cfg) ==
    IF Get(cfg, "description", "") # ""
    THEN <<"# Your Purpose\n" \o cfg["description"]>>
    ELSE <<>>

\* _build_system_prompt, lines 137-142: the agent loop, from the i-th agent.
RECURSIVE AgentParts(_, _)
AgentParts(agents, i) ==
    IF i > Len(agents) THEN <<>>
    ELSE LET agent_name == agents[i][1]
             agent_cfg == agents[i][2]
             role == Get(agent_cfg, "role", agent_name)
             goal == Get(agent_cfg, "goal", "")
         IN <<"\n## " \o role>>
            \o (IF goal # "" THEN <<"Goal: " \o goal>> ELSE <<>>)
            \o AgentParts(agents, i + 1)

\* _build_system_prompt, lines 134-136.
CapabilityParts(cfg) ==
    LET agents == Get(cfg, "agents", <<>>)
    IN IF agents # <<>>
       THEN <<"\n# Your Capabilities">> \o AgentParts(agents, 1)
       ELSE <<>>

\* _build_system_prompt, lines 148-151: the task loop, from the i-th task.
RECURSIVE TaskLineParts(_, _)
TaskLineParts(tasks, i) ==
    IF i > Len(tasks) THEN <<>>
    ELSE LET task_name == tasks[i][1]
             desc == Get(tasks[i][2], "description", "")
         IN (IF desc # "" THEN <<TaskPart(task_name, desc)>> ELSE <<>>)
            \o TaskLineParts(tasks, i + 1)

\* _build_system_prompt, lines 145-147.
TaskParts(cfg) ==
    LET tasks == Get(cfg, "tasks", <<>>)
    IN IF tasks # <<>>
       THEN <<"\n# Tasks You Can Perform">> \o TaskLineParts(tasks, 1)
       ELSE <<>>

\* StrandsRunner._build_system_prompt
_build_system_prompt(cfg) ==
    Join(PurposeParts(cfg) \o CapabilityParts(cfg) \o TaskParts(cfg), "\n")

\* StrandsRunner._collect_tools
_collect_tools(cfg) == <<>>

\* StrandsRunner.build_crew: [exc, msg, crew, log], as CrewAI_build_crew.
Strands_build_crew(cfg) ==
    LET agent == [type |-> "Agent",
                  oid |-> 1,
                  system_prompt |-> _build_system_prompt(cfg),
                  tools |-> _collect_tools(cfg)]
    IN [exc |-> "", msg |-> "", crew |-> Some(agent), log |-> <<agent>>]

\* repr of the items of a dict of str -> str, from the i-th item.
RECURSIVE ReprItems(_, _)
ReprItems(items, i) ==
    IF i > Len(items) THEN ""
    ELSE "'" \o items[i][1] \o "': '" \o items[i][2] \o "'"
         \o (IF i < Len(items) THEN ", " ELSE "")
         \o ReprItems(items, i + 1)

\* str(inputs) for a dict of str -> str.
StrDict(items) == "{" \o ReprItems(items, 1) \o "}"

\* PromptOf with the two keys looked up in the other order.
PromptOf_TaskFirst(inputs) ==
    IF "task" \in KeySet(inputs) THEN Lookup(inputs, "task")
    ELSE IF "input" \in KeySet(inputs) THEN Lookup(inputs, "input")
    ELSE StrDict(inputs)

\* StrandsRunner.run, line 67.
PromptOf(inputs) ==
    IF "input" \in KeySet(inputs) THEN Lookup(inputs, "input")
    ELSE IF "task" \in KeySet(inputs) THEN Lookup(inputs, "task")
    ELSE StrDict(inputs)

\* StrandsRunner.run.  outcomes[k] is what the k-th call of the agent handle
\* does; the result lists the calls made, each with its argument and what
\* it did.
Strands_run(inputs, outcomes) ==
    LET prompt == PromptOf(inputs)
        r == outcomes[1]
        made == <<[arg |-> prompt, did |-> r]>>
    IN IF r.exc # "" THEN [exc |-> r.exc, value |-> "", calls |-> made]
       ELSE [exc |-> "", value |-> r.result.str, calls |-> made]

----------------------------------------------------------------------------
(* Runner construction *)

\* CrewAI_init without the import check: the SDK is first missed at call time.
CrewAI_init_Deferred(sdks) == "constructed"

\* CrewAIRunner.__init__: `import crewai`, ImportError -> RuntimeError.
CrewAI_init(sdks) == IF "crewai" \in sdks THEN "constructed" ELSE "RuntimeError"

\* StrandsRunner.__init__: `import strands`, ImportError -> RuntimeError.
Strands_init(sdks) == IF "strands" \in sdks THEN "constructed" ELSE "RuntimeError"

----------------------------------------------------------------------------
(* The inputs the model draws from. *)

AgentNames == {"researcher", "writer", ""}

TaskNames == {"research_task", "writing_task", "review_task"}

\* The agent configurations: two with role, goal and backstory, one with
\* neither role nor goal and with a model name.
AgentCfg(name) ==
    CASE name = "researcher" ->
            [role |-> "Researcher", goal |-> "Gather and analyze information",
             backstory |-> "You are an expert researcher."]
      [] name = "writer" ->
            [role |-> "Writer", goal |-> "Write clear summaries",
             backstory |-> "You are a skilled technical writer."]
      [] OTHER -> [backstory |-> "You help.", llm |-> "claude"]

\* Insertion-ordered agents dicts of at most MaxAgents agents.
AgentDicts ==
    {[i \in 1..Len(names) |-> <<names[i], AgentCfg(names[i])>>] :
        names \in DistinctSeqs(AgentNames, MaxAgents)}

\* A text of n characters none of which is a full stop; the k-th character
\* depends on k, so that prefixes of different lengths differ.
RECURSIVE TextFrom(_, _)
TextFrom(lo, hi) ==
    IF lo > hi THEN ""
    ELSE IF lo = hi
         THEN (CASE lo % 3 = 0 -> "a" [] lo % 3 = 1 -> "b" [] OTHER -> "c")
         ELSE LET mid == (lo + hi) \div 2
              IN TextFrom(lo, mid) \o TextFrom(mid + 1, hi)

Text(n) == TextFrom(1, n)

\* What a task's "agent" key may hold: absent, empty, or a name, which is
\* declared or not according to the agents dict it meets.
AgentRefs == {None, Some(""), Some("researcher"), Some("writer")}

\* What a task's "description" key may hold: absent, empty, and texts one
\* short of, exactly at and one beyond the slice bound.
Descriptions ==
    {None, Some(""),
     Some(Text(TruncLen - 1)), Some(Text(TruncLen)), Some(Text(TruncLen + 1))}

\* d with d[k] = opt[1] added, or d itself when opt is None.
With(d, k, opt) ==
    IF opt = None THEN d
    ELSE [x \in DOMAIN d \cup {k} |-> IF x = k THEN opt[1] ELSE d[x]]

\* A task config; writing_task carries a context entry, as it does in
\* multi_agent_crew_config.
TaskCfg(name, ref, desc) ==
    With(With(With([expected_output |-> "output of " \o name],
                   "agent", ref),
              "description", desc),
         "context", IF name = "writing_task" THEN Some(<<"research_task">>) ELSE None)

\* Insertion-ordered tasks dicts over the given names, each task with an
\* agent reference of refs and a description of descs.
RECURSIVE TaskDictsOver(_, _, _)
TaskDictsOver(names, refs, descs) ==
    IF names = <<>> THEN {<<>>}
    ELSE {<<<<names[1], TaskCfg(names[1], ref, desc)>>>> \o rest :
             ref \in refs, desc \in descs,
             rest \in TaskDictsOver(Tail(names), refs, descs)}

TaskDicts(refs, descs) ==
    UNION {TaskDictsOver(names, refs, descs) :
              names \in DistinctSeqs(TaskNames, MaxTasks)}

\* A directory entry: does it exist, and the files below it in listing
\* order.  A file has a name, a suffix and what read_text does on it:
\* "text" (non-blank content), "blank", "OSError", "UnicodeDecodeError".
FileExts == {"md", "py", "json"}

FileReads == {"text", "blank", "OSError", "UnicodeDecodeError"}

File(k, ext, read) ==
    [name |-> (CASE k = 1 -> "f1" [] k = 2 -> "f2" [] k = 3 -> "f3" [] OTHER -> "fn")
              \o "." \o ext,
     ext |-> ext, read |-> read]

RECURSIVE FileLists(_, _, _)
FileLists(n, exts, reads) ==
    IF n = 0 THEN {<<>>}
    ELSE LET shorter == FileLists(n - 1, exts, reads)
         IN shorter \cup
            {Append(fl, File(n, ext, read)) :
                fl \in {x \in shorter : Len(x) = n - 1}, ext \in exts, read \in reads}

PathNames == {"kb", "docs", "gone"}

\* The file systems: "kb" holds any of kbFiles, "docs" one readable text
\* file, "gone" does not exist.  Directory listings are elements of
\* FileLists(n, exts, reads).
FileSystems(kbFiles) ==
    {[p \in PathNames |->
        CASE p = "kb" -> [exists |-> TRUE, files |-> fl]
          [] p = "docs" -> [exists |-> TRUE,
                            files |-> <<[name |-> "notes.txt", ext |-> "txt",
                                         read |-> "text"]>>]
          [] OTHER -> [exists |-> FALSE, files |-> <<>>]] :
        fl \in kbFiles}

\* A crew config from its parts; an absent part is None.
CrewCfg(desc, agents, tasks, paths, process) ==
    With(With(With(With(With([name |-> "crew"],
                             "description", desc),
                        "agents", agents),
                   "tasks", tasks),
              "knowledge_paths", paths),
         "process", process)

\* The inputs of run: insertion-ordered dicts of str -> str.
InputKeys == {"input", "task", "other"}

InputValue(k) == CASE k = "input" -> "X" [] k = "task" -> "Y" [] OTHER -> "Z"

InputDicts ==
    {[i \in 1..Len(ks) |-> <<ks[i], InputValue(ks[i])>>] :
        ks \in DistinctSeqs(InputKeys, Cardinality(InputKeys))}

\* What one call of a handle does: it raises, or returns a result object
\* that has a raw text attribute or has none.
CallOutcomes ==
    {[exc |-> "BackendError", result |-> [hasRaw |-> FALSE, raw |-> "", str |-> ""]],
     [exc |-> "", result |-> [hasRaw |-> TRUE, raw |-> "raw text",
                              str |-> "CrewOutput(raw='raw text')"]],
     [exc |-> "", result |-> [hasRaw |-> FALSE, raw |-> "", str |-> "plain result"]]}

\* What the first and the second call of a handle do.
OutcomeSeqs == {<<a, b>> : a \in CallOutcomes, b \in CallOutcomes}

----------------------------------------------------------------------------
(* The pytest plugin (plugin.py): command line options and the collection   *)
(* hook.  A command line is a function from the flags given to their        *)
(* values; an item is a record of its keywords (marker names among them)    *)
(* and the markers added to it.                                             *)

\* A command line with no flag.
NoArgs == [x \in {} |-> None]

\* A session before pytest_addoption ran: no option registered yet.
SessionStart(args, items) ==
    [phase |-> "start", parser |-> [x \in {} |-> None], args |-> args,
     items |-> items]

\* pytest_addoption: --e2e (store_true, default False) and --framework
\* (store, default None).  A default is kept wrapped: <<>> is None.
pytest_addoption(parser) ==
    [name \in DOMAIN parser \cup {"--e2e", "--framework"} |->
        CASE name = "--e2e" -> [action |-> "store_true", default |-> Some(FALSE)]
          [] name = "--framework" -> [action |-> "store", default |-> None]
          [] OTHER -> parser[name]]

\* config.getoption(name): the value given on the command line, else the
\* registered default; <<>> is None.
getoption(ses, name) ==
    IF name \in DOMAIN ses.args THEN Some(ses.args[name])
    ELSE ses.parser[name].default

\* pytest.mark.skip(reason=...)
SkipMark(reason) == [name |-> "skip", reason |-> reason]

\* pytest_collection_modifyitems, line 68.
skip_e2e == SkipMark("E2E tests disabled (need --e2e flag)")

\* pytest_collection_modifyitems, lines 69-71.
skip_framework(framework_filter) ==
    SkipMark("Test not for framework '" \o StrOpt(framework_filter)
             \o "' (--framework filter)")

\* item.add_marker(marker): the marker joins the item's own markers and its
\* name the item's keywords.
add_marker(item, marker) ==
    [item EXCEPT !.own_markers = Append(@, marker),
                 !.keywords = @ \cup {marker.name}]

\* pytest_collection_modifyitems, line 78.
framework_markers == {"crewai", "langgraph", "strands"}

\* FilterFramework skipping every item that lacks the filter's marker, the
\* items with no framework marker included.
FilterFramework_SkipsUnmarked(item, framework_filter) ==
    IF framework_filter # None /\ framework_filter[1] # ""
    THEN IF framework_filter[1] \notin item.keywords
         THEN add_marker(item, skip_framework(framework_filter))
         ELSE item
    ELSE item

\* pytest_collection_modifyitems, lines 77-82: the framework filter on one item.
FilterFramework(item, framework_filter) ==
    IF framework_filter # None /\ framework_filter[1] # ""
    THEN LET test_frameworks == framework_markers \cap item.keywords
         IN IF test_frameworks # {} /\ framework_filter[1] \notin test_frameworks
            THEN add_marker(item, skip_framework(framework_filter))
            ELSE item
    ELSE item

\* pytest_collection_modifyitems, lines 73-82: the body of the loop.
ModifyItem(item, e2e_enabled, framework_filter) ==
    LET afterE2E == IF "e2e" \in item.keywords /\ ~e2e_enabled
                    THEN add_marker(item, skip_e2e)
                    ELSE item
    IN FilterFramework(afterE2E, framework_filter)

\* pytest_collection_modifyitems: the items after the hook.
pytest_collection_modifyitems(ses) ==
    LET e2e_enabled == getoption(ses, "--e2e")[1]
        framework_filter == getoption(ses, "--framework")
    IN [i \in 1..Len(ses.items) |->
           ModifyItem(ses.items[i], e2e_enabled, framework_filter)]

----------------------------------------------------------------------------
(* The module-mocking fixtures of plugin.py.  sys.modules is a function     *)
(* from the module names present to module objects; a module object is a    *)
(* record: kind "module" for an imported module, kind "MagicMock" for the   *)
(* object one mocker.MagicMock() call of a fixture returned.                *)

FRAMEWORK_MODULES ==
    <<"crewai", "crewai.knowledge", "crewai.knowledge.source",
      "crewai.knowledge.source.text_file_knowledge_source",
      "langgraph", "langgraph.prebuilt", "langchain_anthropic", "strands">>

crewai_modules ==
    <<"crewai", "crewai.knowledge", "crewai.knowledge.source",
      "crewai.knowledge.source.text_file_knowledge_source">>

langgraph_modules == <<"langgraph", "langgraph.prebuilt", "langchain_anthropic">>

strands_modules == <<"strands">>

MockFixtures == {"mock_frameworks", "mock_crewai", "mock_langgraph", "mock_strands"}

\* The list a fixture loops over, at setup and at teardown.
FixtureModules(fixture) ==
    CASE fixture = "mock_frameworks" -> FRAMEWORK_MODULES
      [] fixture = "mock_crewai" -> crewai_modules
      [] fixture = "mock_langgraph" -> langgraph_modules
      [] fixture = "mock_strands" -> strands_modules

\* An imported module, and the object mocker.MagicMock() returns: a new
\* object at each call, one call per fixture and module name.
Module(name) == [kind |-> "module", by |-> "import", name |-> name]

MagicMock(fixture, name) == [kind |-> "MagicMock", by |-> fixture, name |-> name]

NoModules == [x \in {} |-> Module(x)]

\* sys.modules.pop(name, None)
Pop(modules, name) == [x \in DOMAIN modules \ {name} |-> modules[x]]

\* One iteration of a fixture's setup loop on the frame
\* [sys_modules, original_modules, mock_modules].
MockModule(fixture, frame, module_name) ==
    LET mock == MagicMock(fixture, module_name)
    IN [mock_modules |-> With(frame.mock_modules, module_name, Some(mock)),
        original_modules |->
            IF module_name \in DOMAIN frame.sys_modules
            THEN With(frame.original_modules, module_name,
                      Some(frame.sys_modules[module_name]))
            ELSE frame.original_modules,
        sys_modules |-> With(frame.sys_modules, module_name, Some(mock))]

\* The setup loop over names[k..].
RECURSIVE SetupLoop(_, _, _, _)
SetupLoop(fixture, names, k, frame) ==
    IF k > Len(names) THEN frame
    ELSE SetupLoop(fixture, names, k + 1, MockModule(fixture, frame, names[k]))

\* A fixture up to its yield.
FixtureSetup(fixture, modules) ==
    SetupLoop(fixture, FixtureModules(fixture), 1,
              [mock_modules |-> NoModules, original_modules |-> NoModules,
               sys_modules |-> modules])

\* RestoreModule dropping the name whether or not an original was saved.
RestoreModule_PopOnly(modules, original_modules, module_name) ==
    Pop(modules, module_name)

\* One iteration of a fixture's teardown loop.
RestoreModule(modules, original_modules, module_name) ==
    IF module_name \in DOMAIN original_modules
    THEN With(modules, module_name, Some(original_modules[module_name]))
    ELSE Pop(modules, module_name)

\* The teardown loop over names[k..].
RECURSIVE TeardownLoop(_, _, _, _)
TeardownLoop(names, k, original_modules, modules) ==
    IF k > Len(names) THEN modules
    ELSE TeardownLoop(names, k + 1, original_modules,
                      RestoreModule(modules, original_modules, names[k]))

\* A fixture after its yield.
FixtureTeardown(frame, modules) ==
    TeardownLoop(FixtureModules(frame.fixture), 1, frame.original_modules, modules)

\* No fixture has been requested; sys.modules is the given one.
NoFixtures(modules) ==
    /\ sys_modules = modules
    /\ fixtures = <<>>
    /\ finished = <<>>
    /\ modules_before = modules

----------------------------------------------------------------------------
(* The state machine: a caller constructs a runner, builds a crew from the   *)
(* configuration and runs it.                                                *)

NotBuilt == [status |-> "none", exc |-> "", msg |-> "", handle |-> None]

NotLoaded == [status |-> "none", paths |-> <<>>, exc |-> "", sources |-> <<>>]

NotRun == [status |-> "none", inputs |-> <<>>, exc |-> "", value |-> ""]

\* The state before any runner is constructed, for an environment drawn
\* from the given sets.
RunnersFrom(sdkSets, fileSystems, configs) ==
    /\ importable \in sdkSets
    /\ fs \in fileSystems
    /\ crew_config \in configs
    /\ instance = [r \in Runners |-> "absent"]
    /\ built = [r \in Runners |-> NotBuilt]
    /\ backend = [r \in Runners |-> <<>>]
    /\ ran = [r \in Runners |-> NotRun]
    /\ calls = [r \in Runners |-> <<>>]
    /\ knowledge = NotLoaded

\* The same, with a pytest session that has no flag and no item.
InitFrom(sdkSets, fileSystems, configs) ==
    /\ RunnersFrom(sdkSets, fileSystems, configs)
    /\ session = SessionStart(NoArgs, <<>>)
    /\ NoFixtures(NoModules)

\* CrewAIRunner()
CrewAIInit ==
    /\ instance["crewai"] = "absent"
    /\ instance' = [instance EXCEPT !["crewai"] = CrewAI_init(importable)]
    /\ UNCHANGED <<importable, fs, crew_config, built, backend, ran, calls, knowledge>>
    /\ UNCHANGED pluginVars

\* StrandsRunner()
StrandsInit ==
    /\ instance["strands"] = "absent"
    /\ instance' = [instance EXCEPT !["strands"] = Strands_init(importable)]
    /\ UNCHANGED <<importable, fs, crew_config, built, backend, ran, calls, knowledge>>
    /\ UNCHANGED pluginVars

\* The record of a build_crew call.
BuildRecord(r) ==
    [status |-> IF r.exc = "" THEN "returned" ELSE "raised",
     exc |-> r.exc, msg |-> r.msg, handle |-> r.crew]

\* The record of a run call.
RunRecord(inputs, r) ==
    [status |-> IF r.exc = "" THEN "returned" ELSE "raised",
     inputs |-> inputs, exc |-> r.exc, value |-> r.value]

\* runner.build_crew(crew_config) on a CrewAIRunner
CrewAIBuildCrew ==
    /\ instance["crewai"] = "constructed"
    /\ built["crewai"].status = "none"
    /\ LET r == CrewAI_build_crew(crew_config, fs)
       IN /\ built' = [built EXCEPT !["crewai"] = BuildRecord(r)]
          /\ backend' = [backend EXCEPT !["crewai"] = r.log]
    /\ UNCHANGED <<importable, fs, crew_config, instance, ran, calls, knowledge>>
    /\ UNCHANGED pluginVars

\* runner.build_crew(crew_config) on a StrandsRunner
StrandsBuildCrew ==
    /\ instance["strands"] = "constructed"
    /\ built["strands"].status = "none"
    /\ LET r == Strands_build_crew(crew_config)
       IN /\ built' = [built EXCEPT !["strands"] = BuildRecord(r)]
          /\ backend' = [backend EXCEPT !["strands"] = r.log]
    /\ UNCHANGED <<importable, fs, crew_config, instance, ran, calls, knowledge>>
    /\ UNCHANGED pluginVars

\* runner._load_knowledge(knowledge_paths) on a CrewAIRunner
CrewAILoadKnowledge ==
    /\ instance["crewai"] = "constructed"
    /\ knowledge.status = "none"
    /\ \E paths \in DistinctSeqs(PathNames, MaxPaths) :
          LET r == _load_knowledge(paths, fs, 0)
          IN knowledge' = [status |-> IF r.exc = "" THEN "returned" ELSE "raised",
                           paths |-> paths, exc |-> r.exc, sources |-> r.sources]
    /\ UNCHANGED <<importable, fs, crew_config, instance, built, backend, ran, calls>>
    /\ UNCHANGED pluginVars

\* runner.run(crew, inputs) on a CrewAIRunner, with the crew it built
CrewAIRun ==
    /\ built["crewai"].status = "returned"
    /\ ran["crewai"].status = "none"
    /\ \E inputs \in InputDicts, outcomes \in OutcomeSeqs :
          LET r == CrewAI_run(inputs, outcomes)
          IN /\ ran' = [ran EXCEPT !["crewai"] = RunRecord(inputs, r)]
             /\ calls' = [calls EXCEPT !["crewai"] = r.calls]
    /\ UNCHANGED <<importable, fs, crew_config, instance, built, backend, knowledge>>
    /\ UNCHANGED pluginVars

\* runner.run(crew, inputs) on a StrandsRunner, with the agent it built
StrandsRun ==
    /\ built["strands"].status = "returned"
    /\ ran["strands"].status = "none"
    /\ \E inputs \in InputDicts, outcomes \in OutcomeSeqs :
          LET r == Strands_run(inputs, outcomes)
          IN /\ ran' = [ran EXCEPT !["strands"] = RunRecord(inputs, r)]
             /\ calls' = [calls EXCEPT !["strands"] = r.calls]
    /\ UNCHANGED <<importable, fs, crew_config, instance, built, backend, knowledge>>
    /\ UNCHANGED pluginVars

----------------------------------------------------------------------------
(* Specifications *)

\* The file system of the build specifications: "kb" holds a readable text
\* file and one that cannot be decoded, "docs" is readable, "gone" is missing.
BuildFileSystems ==
    FileSystems({<<File(1, "md", "text"), File(2, "md", "UnicodeDecodeError")>>})

\* The agents and tasks of the fixture multi_agent_crew_config.
FixtureAgents ==
    <<<<"researcher",
        [role |-> "Researcher", goal |-> "Gather and analyze information",
         backstory |-> "You are an expert researcher."]>>,
      <<"writer",
        [role |-> "Writer", goal |-> "Write clear summaries",
         backstory |-> "You are a skilled technical writer."]>>>>

FixtureTasks ==
    <<<<"research_task",
        [description |-> "Research the topic: Python programming",
         expected_output |-> "Key facts about Python",
         agent |-> "researcher"]>>,
      <<"writing_task",
        [description |-> "Write a brief summary based on the research",
         expected_output |-> "A concise summary",
         agent |-> "writer",
         context |-> <<"research_task">>]>>>>

\* The configurations of the life cycle: multi_agent_crew_config, with and
\* without a process and knowledge paths.
LifeCycleConfigs ==
    {CrewCfg(Some("A crew with multiple collaborating agents"),
             Some(FixtureAgents), Some(FixtureTasks), paths, process) :
        paths \in {None, Some(<<"docs">>)},
        process \in {None, Some("hierarchical")}}

\* Both runners, any set of installed SDKs: construct, build, run.
Init ==
    InitFrom(SUBSET Runners, BuildFileSystems, LifeCycleConfigs)

Next ==
    \/ CrewAIInit
    \/ StrandsInit
    \/ CrewAIBuildCrew
    \/ StrandsBuildCrew
    \/ CrewAIRun
    \/ StrandsRun

Spec == Init /\ [][Next]_vars

\* CrewAIRunner.build_crew over the crew configurations: every order of at
\* most MaxAgents agents and MaxTasks tasks, every agent reference, every
\* value of process, and knowledge paths that are absent, readable, and
\* hold an undecodable file.
CrewAIConfigs ==
    {CrewCfg(Some("A crew"), Some(agents), Some(tasks), paths, process) :
        agents \in AgentDicts,
        tasks \in TaskDicts(AgentRefs, {Some("Research the topic")}),
        paths \in {None, Some(<<"gone", "docs">>), Some(<<"kb">>)},
        process \in {None, Some("sequential"), Some("hierarchical"),
                     Some("parallel")}}

InitCrewAI == InitFrom({{"crewai"}}, BuildFileSystems, CrewAIConfigs)

NextCrewAI == CrewAIInit \/ CrewAIBuildCrew

SpecCrewAI == InitCrewAI /\ [][NextCrewAI]_vars

\* StrandsRunner.build_crew over the crew configurations: every order of
\* agents and tasks and every description length around the slice bound;
\* the tasks name the agent "researcher", which the agents dict may lack.
StrandsConfigs ==
    {CrewCfg(desc, agents, Some(tasks), None, None) :
        desc \in {None, Some(""), Some("A crew")},
        agents \in {None} \cup {Some(a) : a \in AgentDicts},
        tasks \in TaskDicts({Some("researcher")}, Descriptions)}

InitStrands == InitFrom({{"strands"}}, BuildFileSystems, StrandsConfigs)

NextStrands == StrandsInit \/ StrandsBuildCrew

SpecStrands == InitStrands /\ [][NextStrands]_vars

\* CrewAIRunner._load_knowledge over the file systems: at most MaxFiles
\* files under "kb", each of any suffix and any read outcome, and every
\* list of at most MaxPaths distinct paths.
InitKnowledge ==
    InitFrom({{"crewai"}},
             FileSystems(FileLists(MaxFiles, FileExts, FileReads)),
             {CrewCfg(None, None, None, None, None)})

NextKnowledge == CrewAIInit \/ CrewAILoadKnowledge

SpecKnowledge == InitKnowledge /\ [][NextKnowledge]_vars

----------------------------------------------------------------------------
(* The pytest session *)

runnerVars == <<importable, fs, crew_config, instance, built, backend, ran, calls,
                knowledge>>

\* pytest calls the hook pytest_addoption while it starts.
PytestAddOption ==
    /\ session.phase = "start"
    /\ session' = [session EXCEPT !.phase = "configured",
                                  !.parser = pytest_addoption(@)]
    /\ UNCHANGED <<runnerVars, mockVars>>

\* pytest calls the hook pytest_collection_modifyitems after collection.
PytestCollectionModifyItems ==
    /\ session.phase = "configured"
    /\ session' = [session EXCEPT !.phase = "collected",
                                  !.items = pytest_collection_modifyitems(session)]
    /\ UNCHANGED <<runnerVars, mockVars>>

\* The keywords of a collected test: any of the markers e2e, crewai,
\* langgraph and strands.
ItemKeywords == SUBSET {"e2e", "crewai", "langgraph", "strands"}

MaxItems == 2

RECURSIVE ItemLists(_)
ItemLists(n) ==
    IF n = 0 THEN {<<>>}
    ELSE LET shorter == ItemLists(n - 1)
         IN shorter \cup
            {Append(l, [keywords |-> kw, own_markers |-> <<>>]) :
                l \in {x \in shorter : Len(x) = n - 1}, kw \in ItemKeywords}

\* The command lines: --e2e given or not, --framework absent, empty, a
\* framework name, or a name that is no framework.
CommandLines ==
    {With(With(NoArgs, "--e2e", e), "--framework", f) :
        e \in {None, Some(TRUE)},
        f \in {None, Some(""), Some("crewai"), Some("strands"), Some("autogen")}}

\* A pytest session over the command lines and at most MaxItems items.
InitCollection ==
    /\ RunnersFrom({{}}, BuildFileSystems, {CrewCfg(None, None, None, None, None)})
    /\ \E args \in CommandLines, items \in ItemLists(MaxItems) :
          session = SessionStart(args, items)
    /\ NoFixtures(NoModules)

NextCollection == PytestAddOption \/ PytestCollectionModifyItems

SpecCollection == InitCollection /\ [][NextCollection]_vars
\* pytest sets up a fixture a test requests: the fixture runs to its yield.
\* Within one test a fixture is instantiated once.
MockFixtureSetup(fixture) ==
    /\ \A k \in 1..Len(fixtures) : fixtures[k].fixture # fixture
    /\ \A k \in 1..Len(finished) : finished[k].fixture # fixture
    /\ LET frame == FixtureSetup(fixture, sys_modules)
       IN /\ sys_modules' = frame.sys_modules
          /\ fixtures' = Append(fixtures,
                                [fixture |-> fixture,
                                 original_modules |-> frame.original_modules,
                                 mock_modules |-> frame.mock_modules])
    /\ UNCHANGED <<runnerVars, session, finished, modules_before>>

\* pytest tears fixtures down in the reverse of their setup order: the
\* fixture set up last resumes after its yield.
MockFixtureTeardown ==
    /\ fixtures # <<>>
    /\ LET frame == fixtures[Len(fixtures)]
       IN /\ sys_modules' = FixtureTeardown(frame, sys_modules)
          /\ finished' = Append(finished,
                                [fixture |-> frame.fixture,
                                 inside |-> [k \in 1..(Len(fixtures) - 1) |->
                                                fixtures[k].fixture]])
    /\ fixtures' = SubSeq(fixtures, 1, Len(fixtures) - 1)
    /\ UNCHANGED <<runnerVars, session, modules_before>>

\* Every sys.modules over the framework module names and one module, os,
\* that no fixture lists.
InitialModules ==
    {[x \in present \cup {"os"} |-> Module(x)] :
        present \in SUBSET {FRAMEWORK_MODULES[k] : k \in 1..Len(FRAMEWORK_MODULES)}}

InitMocks ==
    /\ RunnersFrom({{}}, BuildFileSystems, {CrewCfg(None, None, None, None, None)})
    /\ session = SessionStart(NoArgs, <<>>)
    /\ \E modules \in InitialModules : NoFixtures(modules)

NextMocks ==
    \/ \E fixture \in MockFixtures : MockFixtureSetup(fixture)
    \/ MockFixtureTeardown

SpecMocks == InitMocks /\ [][NextMocks]_vars

----------------------------------------------------------------------------
(* Properties *)

\* The tasks of the configuration whose agent reference does not resolve:
\* the key is absent, the name is empty, or the name is no key of agents.
UnresolvedTasks(cfg) ==
    LET tasks == Get(cfg, "tasks", <<>>)
        declared == KeySet(Get(cfg, "agents", <<>>))
    IN {i \in 1..Len(tasks) :
           \/ "agent" \notin DOMAIN tasks[i][2]
           \/ tasks[i][2]["agent"] = ""
           \/ tasks[i][2]["agent"] \notin declared}

\* Every task of the configuration names a key of agents.
AllTasksNameDeclaredAgents(cfg) ==
    LET tasks == Get(cfg, "tasks", <<>>)
        declared == KeySet(Get(cfg, "agents", <<>>))
    IN \A i \in 1..Len(tasks) :
           /\ "agent" \in DOMAIN tasks[i][2]
           /\ tasks[i][2]["agent"] \in declared

\* C1: whenever CrewAIRunner.build_crew has been called on a configuration
\* with an unresolved task agent, it raised ValueError and no backend
\* object (Agent, Task, knowledge source, Crew) had been constructed.
C1_NoBackendObjectOnBadReference ==
    (built["crewai"].status # "none" /\ UnresolvedTasks(crew_config) # {})
        => /\ built["crewai"].status = "raised"
           /\ built["crewai"].exc = "ValueError"
           /\ backend["crewai"] = <<>>

\* The part of C1 the code keeps: an unresolved task agent makes build_crew
\* raise ValueError and no Crew is constructed.
C1_RaisesValueError ==
    (built["crewai"].status # "none" /\ UnresolvedTasks(crew_config) # {})
        => /\ built["crewai"].status = "raised"
           /\ built["crewai"].exc = "ValueError"
           /\ built["crewai"].handle = None
           /\ \A k \in 1..Len(backend["crewai"]) :
                 backend["crewai"][k].type \in {"Agent", "Task"}

\* The Crew's task list follows the entries of tasks in order, each task
\* bound to the Agent object built for the name it references.
TasksFollowConfig(cfg, crew, log) ==
    LET tasks == Get(cfg, "tasks", <<>>)
        agents == Get(cfg, "agents", <<>>)
    IN /\ Len(crew.tasks) = Len(tasks)
       /\ \A i \in 1..Len(tasks) :
             /\ crew.tasks[i].description = Get(tasks[i][2], "description", "")
             /\ crew.tasks[i].expected_output
                   = Get(tasks[i][2], "expected_output", "")
             /\ \E a \in 1..Len(agents) :
                   /\ agents[a][1] = tasks[i][2]["agent"]
                   /\ log[a].type = "Agent"
                   /\ crew.tasks[i].agent = log[a]
                   /\ crew.agents[a] = log[a]
       /\ \A i, j \in 1..Len(crew.tasks) :
             i < j => crew.tasks[i].oid < crew.tasks[j].oid

\* C2: whenever CrewAIRunner.build_crew has been called on a configuration
\* in which every task names a key of agents, it returned a Crew whose task
\* list has one task per entry of tasks, in the order of tasks, each bound
\* to the agent handle of the name it references.
C2_BuildSucceedsInTaskOrder ==
    (built["crewai"].status # "none" /\ AllTasksNameDeclaredAgents(crew_config))
        => /\ built["crewai"].status = "returned"
           /\ TasksFollowConfig(crew_config, built["crewai"].handle[1],
                                backend["crewai"])

\* The part of C2 the code keeps: a Crew that build_crew returned has its
\* tasks in the order of tasks, each bound to its agent's handle.
C2_TaskOrderWhenReturned ==
    built["crewai"].status = "returned"
        => TasksFollowConfig(crew_config, built["crewai"].handle[1],
                             backend["crewai"])

\* C3: whenever StrandsRunner.build_crew has been called on a configuration
\* with an unresolved task agent, it raised a configuration error and
\* returned no execution handle.
C3_StrandsRejectsUnresolvedAgent ==
    (built["strands"].status # "none" /\ UnresolvedTasks(crew_config) # {})
        => /\ built["strands"].status = "raised"
           /\ built["strands"].handle = None

\* Does text hold sub as a substring / end with sub?
Contains(text, sub) ==
    \E i \in 1..(Len(text) - Len(sub) + 1) : SubSeq(text, i, i + Len(sub) - 1) = sub

EndsWith(text, sub) ==
    /\ Len(text) >= Len(sub)
    /\ SubSeq(text, Len(text) - Len(sub) + 1, Len(text)) = sub

\* The indices of the tasks with a non-empty description.
DescribedTasks(cfg) ==
    LET tasks == Get(cfg, "tasks", <<>>)
    IN {i \in 1..Len(tasks) : Get(tasks[i][2], "description", "") # ""}

\* The task line C4 states for a task: `- <task_name>: `, the first
\* min(n, 200) characters of the description, and the ellipsis marker.
C4_TaskLine(task_name, desc) ==
    LET n == Len(desc)
        m == IF n < 200 THEN n ELSE 200
    IN "- " \o task_name \o ": " \o SubSeq(desc, 1, m) \o "..."

\* The lines C4 states for the tasks from the i-th on, each after a blank line.
RECURSIVE C4_TaskBlock(_, _)
C4_TaskBlock(tasks, i) ==
    IF i > Len(tasks) THEN ""
    ELSE (IF Get(tasks[i][2], "description", "") # ""
          THEN "\n\n" \o C4_TaskLine(tasks[i][1], tasks[i][2]["description"])
          ELSE "")
         \o C4_TaskBlock(tasks, i + 1)

\* C4: the prompt StrandsRunner.build_crew hands to the Agent ends with the
\* Tasks heading followed by one line per described task, in the order of
\* tasks: `- <task_name>: `, the first min(n, 200) characters of the
\* description, then `...`, also when n <= 200.  The prompt is a function of
\* the configuration alone.
C4_TaskLinesTruncated ==
    (built["strands"].status = "returned" /\ Get(crew_config, "tasks", <<>>) # <<>>)
        => EndsWith(built["strands"].handle[1].system_prompt,
                    "# Tasks You Can Perform"
                    \o C4_TaskBlock(crew_config["tasks"], 1))

\* C4 witness: a prompt was built from a task whose description has exactly
\* 200 characters and one whose description is shorter.
C4_Witness ==
    /\ built["strands"].status = "returned"
    /\ \E i, j \in DescribedTasks(crew_config) :
          /\ Len(crew_config["tasks"][i][2]["description"]) = 200
          /\ Len(crew_config["tasks"][j][2]["description"]) = 199

\* C6: in the prompt StrandsRunner.build_crew hands to the Agent, the
\* Purpose heading appears only when the crew description is non-empty, the
\* Capabilities heading only when there is an agent, and the Tasks heading
\* only when a task line is emitted under it.
C6_NoHeadingForEmptySection ==
    built["strands"].status = "returned"
        => LET prompt == built["strands"].handle[1].system_prompt
           IN /\ Contains(prompt, "# Your Purpose")
                    => Get(crew_config, "description", "") # ""
              /\ Contains(prompt, "# Your Capabilities")
                    => Get(crew_config, "agents", <<>>) # <<>>
              /\ Contains(prompt, "# Tasks You Can Perform")
                    => DescribedTasks(crew_config) # {}

\* The part of C6 the code keeps: a heading appears exactly when the
\* mapping it is written for is non-empty.
C6_HeadingIffMappingNonEmpty ==
    built["strands"].status = "returned"
        => LET prompt == built["strands"].handle[1].system_prompt
           IN /\ Contains(prompt, "# Your Purpose")
                    <=> Get(crew_config, "description", "") # ""
              /\ Contains(prompt, "# Your Capabilities")
                    <=> Get(crew_config, "agents", <<>>) # <<>>
              /\ Contains(prompt, "# Tasks You Can Perform")
                    <=> Get(crew_config, "tasks", <<>>) # <<>>

\* C5: StrandsRunner.run calls the agent handle exactly once, with
\* inputs["input"] when that key is present, else with inputs["task"] when
\* that key is present, else with the stringified mapping and never with
\* the value of another key; selecting the prompt never fails, and run
\* returns the stringified result of the call.
C5_FirstPresentKeyIsPrompt ==
    ran["strands"].status # "none"
        => LET inputs == ran["strands"].inputs
               made == calls["strands"]
               has(k) == \E i \in 1..Len(inputs) : inputs[i][1] = k
               val(k) == inputs[CHOOSE i \in 1..Len(inputs) : inputs[i][1] = k][2]
           IN /\ Len(made) = 1
              /\ has("input") => made[1].arg = val("input")
              /\ (~has("input") /\ has("task")) => made[1].arg = val("task")
              /\ (~has("input") /\ ~has("task"))
                    => /\ made[1].arg = StrDict(inputs)
                       /\ \A i \in 1..Len(inputs) : made[1].arg # inputs[i][2]
              /\ ran["strands"].status = "raised"
                    <=> made[1].did.exc # ""
              /\ ran["strands"].status = "raised"
                    => ran["strands"].exc = made[1].did.exc
              /\ ran["strands"].status = "returned"
                    => ran["strands"].value = made[1].did.result.str

\* C5 witness: run returned for inputs that hold both "input" and "task".
C5_Witness ==
    /\ ran["strands"].status = "returned"
    /\ {"input", "task"} \subseteq KeySet(ran["strands"].inputs)

\* The files a scan of the paths meets that are readable, non-blank and of
\* a recognized suffix (.md, .txt, .py, .ts), as <<path, file name>>.
QualifyingFiles(paths, files) ==
    UNION {{<<paths[p], files[paths[p]].files[j].name>> :
               j \in {k \in 1..Len(files[paths[p]].files) :
                        /\ files[paths[p]].files[k].read = "text"
                        /\ files[paths[p]].files[k].ext \in {"md", "txt", "py", "ts"}}} :
           p \in {q \in 1..Len(paths) : files[paths[q]].exists}}

\* C7: CrewAIRunner._load_knowledge never raises, whatever reading a file
\* does, and returns exactly one source per readable non-empty file with a
\* recognized extension.
C7_LoadKnowledgeNeverRaises ==
    knowledge.status # "none"
        => /\ knowledge.status = "returned"
           /\ {<<knowledge.sources[k].file_paths[1]>> :
                  k \in 1..Len(knowledge.sources)}
              = {<<q[1] \o "/" \o q[2]>> : q \in QualifyingFiles(knowledge.paths, fs)}
           /\ Len(knowledge.sources)
              = Cardinality(QualifyingFiles(knowledge.paths, fs))

\* The part of C7 the code keeps: a scan that meets no undecodable file of
\* a recognized suffix returns one source per qualifying file; missing
\* paths, OS errors and blank files are skipped and the scan goes on.
C7_ScanSkipsOSErrors ==
    (/\ knowledge.status # "none"
     /\ \A p \in 1..Len(knowledge.paths) :
           \A j \in 1..Len(fs[knowledge.paths[p]].files) :
               fs[knowledge.paths[p]].files[j].read = "UnicodeDecodeError"
                  => fs[knowledge.paths[p]].files[j].ext = "json")
        => /\ knowledge.status = "returned"
           /\ Len(knowledge.sources)
              = Cardinality(QualifyingFiles(knowledge.paths, fs))

\* Does building the configuration read a file that cannot be decoded?
ReadsUndecodable(cfg, files) ==
    \E p \in 1..Len(Get(cfg, "knowledge_paths", <<>>)) :
        LET entry == files[cfg["knowledge_paths"][p]]
        IN /\ entry.exists
           /\ \E j \in 1..Len(entry.files) :
                 /\ entry.files[j].read = "UnicodeDecodeError"
                 /\ entry.files[j].ext \in {"md", "txt", "py", "ts"}

\* C8: a Crew that CrewAIRunner.build_crew returned has the hierarchical
\* process exactly when the config's process is the string "hierarchical",
\* and the sequential process for every other value and for an absent key;
\* when build_crew raised, the cause is an unresolved task agent or an
\* undecodable knowledge file, never the value of process.
C8_ProcessMappingIsTotal ==
    /\ built["crewai"].status = "returned"
          => built["crewai"].handle[1].process
             = IF "process" \in DOMAIN crew_config
                  /\ crew_config["process"] = "hierarchical"
               THEN "Process.hierarchical"
               ELSE "Process.sequential"
    /\ built["crewai"].status = "raised"
          => \/ UnresolvedTasks(crew_config) # {}
             \/ ReadsUndecodable(crew_config, fs)

\* C8 witness: a Crew was built from a config with an unrecognized process.
C8_Witness ==
    /\ built["crewai"].status = "returned"
    /\ "process" \in DOMAIN crew_config
    /\ crew_config["process"] = "parallel"

\* C9: a runner whose SDK is not importable fails with RuntimeError when it
\* is constructed, so build_crew and run are only ever called on a runner
\* whose construction succeeded; what constructing one runner does depends
\* on its own SDK alone, and a runner not yet constructed can always be
\* constructed, whatever happened to the other.
C9_DependencyErrorAtConstruction ==
    /\ \A r \in Runners :
          /\ instance[r] \in {"absent",
                              IF r \in importable THEN "constructed"
                              ELSE "RuntimeError"}
          /\ (built[r].status # "none" \/ ran[r].status # "none")
                => instance[r] = "constructed"
    /\ instance["crewai"] = "absent" => ENABLED CrewAIInit
    /\ instance["strands"] = "absent" => ENABLED StrandsInit

\* C9 witness: constructing CrewAIRunner failed, and StrandsRunner was
\* constructed afterwards or before and has run.
C9_Witness ==
    /\ instance["crewai"] = "RuntimeError"
    /\ ran["strands"].status = "returned"

\* C10: CrewAIRunner.run calls kickoff exactly once, with the given inputs;
\* when kickoff raises, run raises the same error; otherwise run returns
\* the result's raw attribute when it has one and the stringified result
\* when it has none.
C10_KickoffOnceAndNormalized ==
    ran["crewai"].status # "none"
        => LET made == calls["crewai"]
           IN /\ Len(made) = 1
              /\ made[1].arg = ran["crewai"].inputs
              /\ made[1].did.exc # ""
                    => /\ ran["crewai"].status = "raised"
                       /\ ran["crewai"].exc = made[1].did.exc
              /\ made[1].did.exc = ""
                    => /\ ran["crewai"].status = "returned"
                       /\ ran["crewai"].value
                          = IF made[1].did.result.hasRaw
                            THEN made[1].did.result.raw
                            ELSE made[1].did.result.str

\* C10 witness: run returned the raw attribute of a result that has one.
C10_Witness ==
    /\ ran["crewai"].status = "returned"
    /\ calls["crewai"][1].did.result.hasRaw

\* Does the item carry the skip marker of the e2e switch / of the
\* framework filter for the given name?
HasE2ESkip(item) ==
    \E k \in 1..Len(item.own_markers) :
        item.own_markers[k]
            = [name |-> "skip", reason |-> "E2E tests disabled (need --e2e flag)"]

HasFrameworkSkip(item) ==
    \E k \in 1..Len(item.own_markers) :
        /\ item.own_markers[k].name = "skip"
        /\ item.own_markers[k].reason # "E2E tests disabled (need --e2e flag)"

ListedBy(fixture) ==
    {FixtureModules(fixture)[k] : k \in 1..Len(FixtureModules(fixture))}

\* The module names some active fixture lists.
ActiveNames == UNION {ListedBy(fixtures[k].fixture) : k \in 1..Len(fixtures)}

\* C12: the mocking fixtures restore sys.modules.  For every initial
\* sys.modules and every set of the fixtures set up in some order and torn
\* down in the reverse order: once no fixture is active, sys.modules is what
\* it was before the first setup (a name present then maps to its original
\* object, a name absent then is absent); while a fixture is active each
\* name it lists maps to a MagicMock, and the fixture set up last sees the
\* mocks it yielded; a name that no active fixture lists is present or
\* absent, with the same object, as before the first setup.
C12_FixturesRestoreModules ==
    /\ fixtures = <<>> => sys_modules = modules_before
    /\ \A k \in 1..Len(fixtures) :
          \A name \in ListedBy(fixtures[k].fixture) :
             /\ name \in DOMAIN sys_modules
             /\ sys_modules[name].kind = "MagicMock"
             /\ k = Len(fixtures) => sys_modules[name] = fixtures[k].mock_modules[name]
    /\ \A name \in (DOMAIN sys_modules \cup DOMAIN modules_before) \ ActiveNames :
          /\ name \in DOMAIN sys_modules <=> name \in DOMAIN modules_before
          /\ name \in DOMAIN sys_modules => sys_modules[name] = modules_before[name]

\* C12 witness: mock_crewai was set up inside mock_frameworks, both have
\* been torn down in reverse order, and sys.modules started with crewai
\* imported and crewai.knowledge not.
C12_Witness ==
    /\ fixtures = <<>>
    /\ "crewai" \in DOMAIN modules_before
    /\ "crewai.knowledge" \notin DOMAIN modules_before
    /\ \E i, j \in 1..Len(finished) :
          /\ i < j
          /\ finished[i] = [fixture |-> "mock_crewai", inside |-> <<"mock_frameworks">>]
          /\ finished[j] = [fixture |-> "mock_frameworks", inside |-> <<>>]

====
